---- MODULE Spec2Model ----
(***************************************************************************)
(* Model of the plot_csv_data dashboards.                                  *)
(*                                                                         *)
(*   plot_data_with_csv_revising_graph.py : two Dash callbacks,            *)
(*       handle_uploads (uploads -> stores, slider, status, ui-store) and  *)
(*       update_graph  (slider, stores, relayout/restyle -> figure,        *)
(*       stats, ui-store).                                                 *)
(*   plot_data_with_csv_upload.py : one Dash callback, update_all.         *)
(*   example_angular_velocity.py  : the trapezoid integration loop.        *)
(*                                                                         *)
(* Numbers.  A Python float is modelled by an integer count of "sub-units":*)
(* Sub sub-units make one microsecond, the resolution of datetime and      *)
(* timedelta.  NaN and a cell holding text are two reserved integers that   *)
(* lie outside every range the model draws numbers from.                   *)
(* Optional values (Python None) are sequences: None is <<>>, a value v is  *)
(* <<v>>.  A Python dict is a function on its keys.                        *)
(***************************************************************************)
EXTENDS Integers, Sequences, FiniteSets, TLC

\* ------------------------------------------------------------------ bounds
MaxRows == 2        \* rows of an uploaded RAW table
MaxTime == 3        \* largest relative time in a RAW table (sub-units)
MaxEpoch == 1       \* largest START time in a META table (sub-units)
MaxMetaRows == 2    \* rows of an uploaded META table
Sub == 2            \* sub-units per microsecond
PlotRows == 3       \* rows of the frame of the static page
PlotTime == 3       \* largest relative time of that frame (sub-units)
UpRows == 2         \* rows of the RAW tables of the upload page
ViewRows == 2       \* rows of the RAW tables of the view-state runs
NumRanges == 2      \* distinct axis ranges a zoom can carry
MaxTrace == 1       \* largest trace index a legend click can name

\* ------------------------------------------------------------ Python values
None == <<>>
Some(v) == <<v>>
IsNone(o) == o = <<>>
Get(o) == o[1]

EmptyDict == <<>>

\* The literal 1 of the slider defaults is one second.
OneSecond == 1000000 * Sub

NaN == 0 - 9999
NotFloat == 0 - 9998

\* Python's a <= b on floats: false as soon as one side is NaN.
FLe(a, b) == a # NaN /\ b # NaN /\ a <= b

\* pandas Series.max(): NaN entries are skipped, an empty series gives NaN.
SeriesMax(s) ==
    LET vals == {s[i] : i \in 1..Len(s)} \ {NaN}
    IN  IF vals = {} THEN NaN ELSE CHOOSE m \in vals : \A v \in vals : v <= m

\* datetime and timedelta hold whole microseconds; a float is rounded to the
\* nearest one, ties to the even microsecond.
RoundHalfEven(x) ==
    LET q == x \div Sub
        r == x % Sub
    IN  IF 2 * r < Sub THEN q
        ELSE IF 2 * r > Sub THEN q + 1
        ELSE IF q % 2 = 0 THEN q ELSE q + 1

utcfromtimestamp(ts) == RoundHalfEven(ts)
timedelta(seconds) == RoundHalfEven(seconds)

\* str(Timestamp) and pd.to_datetime of that string.
DatetimeToStr(d) == <<"datetime", d>>
to_datetime(s) == s[2]

\* ------------------------------------------------------------ column names
GyroNames == <<"Gyroscope x (rad/s)", "Gyroscope y (rad/s)",
               "Gyroscope z (rad/s)", "Absolute (rad/s)">>

\* c.strip().strip('"')
StripName(c) ==
    CASE c = " Time (s)" -> "Time (s)"
      [] c = "event " -> "event"
      [] OTHER -> c

\* "time" in c.lower()
ContainsTime(c) ==
    c \in {"Time (s)", "time", "TIME", "true_time", "experiment time",
           "system time", "system time text"}

\* "event" in c.lower()
ContainsEvent(c) == c \in {"event", "Event"}

\* "system" in c.lower()
ContainsSystem(c) == c \in {"system time", "system time text", "System Time"}

\* The first element of a sequence that belongs to a set of names, or None:
\* next((c for c in cols if ...), None)
FirstIn(cols, names) ==
    LET hits == {i \in 1..Len(cols) : cols[i] \in names}
    IN  IF hits = {} THEN None
        ELSE Some(cols[CHOOSE i \in hits : \A j \in hits : i <= j])

Range(s) == {s[i] : i \in 1..Len(s)}

InSeq(x, s) == \E i \in 1..Len(s) : s[i] = x

\* ------------------------------------------------------ uploaded files
\* A RAW upload: file name, whether parse_contents succeeds, the header, and
\* the data of the first time-like column.
RawFile(name, ok, cols, time) ==
    [name |-> name, ok |-> ok, cols |-> cols, time |-> time]

\* A META upload: rows are <<event, system time>> cells.
MetaFile(name, ok, cols, rows) ==
    [name |-> name, ok |-> ok, cols |-> cols, rows |-> rows]

GyroCols == <<" Time (s)">> \o GyroNames
AccelCols == <<"time", "Acceleration x (m/s^2)">>
NoTimeCols == <<"t", "Gyroscope x (rad/s)">>
MetaCols == <<"event ", "experiment time", "system time", "system time text">>
MetaNoEventCols == <<"experiment time", "system time">>

\* Sequences over S of length lo..hi.
SeqsOf(S, lo, hi) == UNION {[1..n -> S] : n \in lo..hi}

\* ------------------------------------------------------------ state
VARIABLES
    upload_raw,        \* dcc.Upload "upload-raw": None or the uploaded file
    upload_meta,       \* dcc.Upload "upload-meta"
    store_raw_json,    \* dcc.Store "store-raw-json"
    store_meta_json,   \* dcc.Store "store-meta-json"
    store_uirev,       \* dcc.Store "store-uirev"
    raw_file_name,     \* html.Div "raw-file-name"
    meta_file_name,    \* html.Div "meta-file-name"
    trim_slider,       \* dcc.RangeSlider "trim-slider": min, max, value
    status_output,     \* html.Div "status-output"
    ui_store,          \* dcc.Store "ui-store"
    relayoutData,      \* dcc.Graph "gyro-graph" relayoutData
    restyleData,       \* dcc.Graph "gyro-graph" restyleData
    gyro_graph,        \* dcc.Graph "gyro-graph" figure
    stats_output,      \* html.Pre "stats-output"
    slider_values,     \* html.Div "slider-values"
    pending,           \* callbacks Dash has still to run
    callback_error,    \* exception that ended each callback's last run
    \* plot_data_with_csv_upload.py
    ua_upload_raw,     \* dcc.Upload "upload-raw"
    ua_upload_meta,    \* dcc.Upload "upload-meta"
    ua_trim_slider,    \* dcc.RangeSlider "trim-slider": min, max, value
    ua_gyro_plot,      \* dcc.Graph "gyro-plot" figure
    ua_stats_output,   \* html.Pre "stats-output"
    ua_slider_values,  \* html.Div "slider-values"
    ua_file_status,    \* html.Div "file-status"
    ua_pending,        \* update_all has still to run
    ua_error,          \* exception that ended update_all's last run
    \* plot_data.py
    pd_df,             \* the module-level frame df: its "Time (s)" column
    pd_trim_slider,    \* dcc.RangeSlider "trim-slider": min, max, value
    pd_gyro_plot,      \* dcc.Graph "gyro-plot" figure
    pd_stats_output,   \* html.Pre "stats-output"
    pd_slider_values,  \* html.Div "slider-values"
    pd_pending         \* update_plot has still to run

revVars == <<upload_raw, upload_meta, store_raw_json, store_meta_json,
             store_uirev, raw_file_name, meta_file_name, trim_slider,
             status_output, ui_store, relayoutData, restyleData, gyro_graph,
             stats_output, slider_values, pending, callback_error>>

uaVars == <<ua_upload_raw, ua_upload_meta, ua_trim_slider, ua_gyro_plot,
            ua_stats_output, ua_slider_values, ua_file_status, ua_pending,
            ua_error>>

pdVars == <<pd_df, pd_trim_slider, pd_gyro_plot, pd_stats_output,
            pd_slider_values, pd_pending>>

vars == <<revVars, uaVars, pdVars>>

\* ------------------------------------------------ make_uirevision_token
\* md5 of f"{raw_name}_{raw_len}": the length holds no underscore, so the
\* text, and (collisions of md5 aside) the digest, determines both parts.
make_uirevision_token(raw_name, raw_len) == <<"md5", raw_name, raw_len>>

\* ------------------------------------------------------- handle_uploads
Slider(lo, hi, value) == [min |-> lo, max |-> hi, value |-> value]

UploadReset(raw_name, meta_name, status) ==
    [exc |-> "",
     store_raw_json |-> None, store_meta_json |-> None, store_uirev |-> None,
     raw_file_name |-> raw_name, meta_file_name |-> meta_name,
     trim_slider |-> Slider(0, OneSecond, <<0, OneSecond>>),
     status_output |-> status, ui_store |-> Some(EmptyDict)]

Raise(e) == [exc |-> e]

\* df_meta[df_meta[event_col] == ev][sys_col].iloc[0], then float(...)
MetaRows(rows, ev) == SelectSeq(rows, LAMBDA r : r[1] = ev)

\* A variant of the alignment that treats each relative time as the step
\* from the row before it.
AlignTrueTime_Cumulative(time, start_dt) ==
    LET sum[k \in 0..Len(time)] == IF k = 0 THEN 0 ELSE sum[k - 1] + time[k]
    IN  [i \in 1..Len(time) |-> start_dt + timedelta(sum[i])]

\* df["true_time"] = df[time_col].apply(lambda s: start_dt +
\* timedelta(seconds=s)): the "true_time" column, one row at a time.
AlignTrueTime(time, start_dt) ==
    [i \in 1..Len(time) |-> start_dt + timedelta(time[i])]

handle_uploads(raw_contents, meta_contents) ==
    IF IsNone(raw_contents) \/ IsNone(meta_contents)
    THEN UploadReset("", "", "Waiting for both files...")
    ELSE
    LET raw == Get(raw_contents)
        meta == Get(meta_contents)
    IN
    IF ~raw.ok THEN UploadReset("", "", "Error parsing RAW")
    ELSE IF ~meta.ok THEN UploadReset(raw.name, "", "Error parsing META")
    ELSE
    LET raw_cols == [i \in 1..Len(raw.cols) |-> StripName(raw.cols[i])]
        meta_cols == [i \in 1..Len(meta.cols) |-> StripName(meta.cols[i])]
        event_col == FirstIn(meta_cols, {c \in Range(meta_cols) : ContainsEvent(c)})
        sys_col == FirstIn(meta_cols, {c \in Range(meta_cols) : ContainsSystem(c)})
    IN
    IF IsNone(event_col) \/ IsNone(sys_col)
    THEN UploadReset(raw.name, meta.name, "META missing necessary columns.")
    ELSE
    LET starts == MetaRows(meta.rows, "START")
        pauses == MetaRows(meta.rows, "PAUSE")
    IN
    IF starts = <<>> THEN Raise("IndexError")
    ELSE IF starts[1][2] = NotFloat THEN Raise("ValueError")
    ELSE IF pauses = <<>> THEN Raise("IndexError")
    ELSE IF pauses[1][2] = NotFloat THEN Raise("ValueError")
    ELSE
    LET start_time == starts[1][2]
        pause_time == pauses[1][2]
        start_dt == utcfromtimestamp(start_time)
        time_col == FirstIn(raw_cols, {c \in Range(raw_cols) : ContainsTime(c)})
    IN
    IF IsNone(time_col) THEN Raise("KeyError")
    ELSE IF \E i \in 1..Len(raw.time) : raw.time[i] = NotFloat
    THEN Raise("ValueError")
    ELSE IF \E i \in 1..Len(raw.time) : raw.time[i] = NaN
    THEN Raise("ValueError")
    ELSE
    LET true_time == AlignTrueTime(raw.time, start_dt)
        t_max == SeriesMax(raw.time)
    IN
    [exc |-> "",
     store_raw_json |->
        Some([cols |-> raw_cols, time |-> raw.time,
              true_time |-> [i \in 1..Len(true_time) |-> DatetimeToStr(true_time[i])]]),
     store_meta_json |-> Some([start |-> start_time, pause |-> pause_time]),
     store_uirev |-> Some(make_uirevision_token(raw.name, Len(raw.time))),
     raw_file_name |-> raw.name, meta_file_name |-> meta.name,
     trim_slider |-> Slider(0, t_max, <<0, t_max>>),
     status_output |-> "Files loaded successfully.",
     ui_store |-> Some(EmptyDict)]

\* --------------------------------------------------------- update_graph
Figure(uirev, rows, x, traces, xr, yr, vis) ==
    [uirevision |-> uirev, rows |-> rows, x |-> x, traces |-> traces,
     xrange |-> xr, yrange |-> yr, visible |-> vis]

\* go.Figure()
EmptyFigure == Figure(None, <<>>, <<>>, <<>>, None, None, EmptyDict)

\* A variant of the mask whose upper end is exclusive.
Slice_UpperExclusive(time, t0, t1) ==
    SelectSeq([i \in 1..Len(time) |-> i],
              LAMBDA i : FLe(t0, time[i]) /\ time[i] # t1 /\ FLe(time[i], t1))

\* df[(df["Time (s)"] >= t0) & (df["Time (s)"] <= t1)]: the index labels of
\* the rows the mask keeps, in the order of the frame.
Slice(time, t0, t1) ==
    SelectSeq([i \in 1..Len(time) |-> i],
              LAMBDA i : FLe(t0, time[i]) /\ FLe(time[i], t1))

\* relayoutData -> ui_state["xrange"], ui_state["yrange"]
MergeRelayout(ui_state, relayout) ==
    IF IsNone(relayout) THEN ui_state
    ELSE
    LET r == Get(relayout)
        u1 == IF "xaxis.range" \in DOMAIN r
              THEN ("xrange" :> r["xaxis.range"]) @@ ui_state ELSE ui_state
    IN  IF "yaxis.range" \in DOMAIN r
        THEN ("yrange" :> r["yaxis.range"]) @@ u1 ELSE u1

\* for i, tr in enumerate(idxs): visible[tr] = prop["visible"][i]
RECURSIVE SetVisible(_, _, _, _)
SetVisible(visible, vals, idxs, i) ==
    IF i > Len(idxs) THEN visible
    ELSE SetVisible((<<"int", idxs[i]>> :> vals[i]) @@ visible,
                    vals, idxs, i + 1)

\* restyleData -> ui_state["visible"]
MergeRestyle(ui_state, restyle) ==
    IF IsNone(restyle) THEN ui_state
    ELSE
    LET prop == Get(restyle)[1]
        idxs == Get(restyle)[2]
    IN  IF "visible" \notin DOMAIN prop THEN ui_state
        ELSE
        LET old == IF "visible" \in DOMAIN ui_state
                   THEN ui_state["visible"] ELSE EmptyDict
        IN  ("visible" :> SetVisible(old, prop["visible"], idxs, 1))
                @@ ui_state

\* The restyle loop reads prop["visible"][i] for every position of idxs.
RestyleIndexError(restyle) ==
    /\ ~IsNone(restyle)
    /\ "visible" \in DOMAIN Get(restyle)[1]
    /\ Len(Get(restyle)[1]["visible"]) < Len(Get(restyle)[2])

\* "if tr < len(fig.data)" compares the key with an int: a key that came
\* back from the store is a str, and the comparison raises TypeError.
ApplyTypeError(ui_state) ==
    /\ "visible" \in DOMAIN ui_state
    /\ \E k \in DOMAIN ui_state["visible"] : k[1] = "str"

\* fig.data[tr].visible = vis for every stored key below len(fig.data)
ApplyVisible(ui_state, ntraces) ==
    IF "visible" \notin DOMAIN ui_state THEN EmptyDict
    ELSE
    LET v == ui_state["visible"]
        hit == {k[2] : k \in {k \in DOMAIN v : k[2] < ntraces}}
    IN  [tr \in hit |-> v[<<"int", tr>>]]

\* What the browser receives and sends back for a dict held in a dcc.Store:
\* JSON object keys are strings.  An int key and the str key of the same
\* digits collapse, the later (int) entry winning.
JsonDict(ui_state) ==
    IF "visible" \notin DOMAIN ui_state THEN ui_state
    ELSE
    LET v == ui_state["visible"]
        keys == {<<"str", k[2]>> : k \in DOMAIN v}
        j == [k \in keys |-> IF <<"int", k[2]>> \in DOMAIN v
                             THEN v[<<"int", k[2]>>] ELSE v[k]]
    IN  ("visible" :> j) @@ ui_state

\* dff[gyro_cols].describe().loc[["mean", "std"]]: of n rows, the mean is
\* NaN for n = 0 and the (n-1) standard deviation for n <= 1.
Describe(gyro_cols, n) ==
    [i \in 1..Len(gyro_cols) |->
        [col |-> gyro_cols[i], mean_nan |-> n = 0, std_nan |-> n <= 1]]

update_graph(trim_range, raw_json, meta_json, relayout, restyle, uirev_token, ui_state) ==
    IF IsNone(raw_json)
    THEN [exc |-> "", gyro_graph |-> EmptyFigure, stats_output |-> None,
          slider_values |-> None, ui_store |-> ui_state]
    ELSE
    LET df == Get(raw_json)
        t0 == trim_range[1]
        t1 == trim_range[2]
        dff == Slice(df.time, t0, t1)
        gyro_cols == SelectSeq(GyroNames, LAMBDA c : InSeq(c, df.cols))
    IN
    IF IsNone(ui_state) THEN Raise("TypeError")
    ELSE IF RestyleIndexError(restyle) THEN Raise("IndexError")
    ELSE
    LET merged == MergeRestyle(MergeRelayout(Get(ui_state), relayout),
                               restyle)
    IN
    IF ApplyTypeError(merged) THEN Raise("TypeError")
    ELSE IF gyro_cols = <<>> THEN Raise("ValueError")
    ELSE
    [exc |-> "",
     gyro_graph |->
        Figure(uirev_token, dff,
               [k \in 1..Len(dff) |-> to_datetime(df.true_time[dff[k]])],
               gyro_cols,
               IF "xrange" \in DOMAIN merged
               THEN Some(merged["xrange"]) ELSE None,
               IF "yrange" \in DOMAIN merged
               THEN Some(merged["yrange"]) ELSE None,
               ApplyVisible(merged, Len(gyro_cols))),
     stats_output |-> Some(Describe(gyro_cols, Len(dff))),
     slider_values |-> Some(<<t0, t1>>),
     ui_store |-> Some(JsonDict(merged))]

\* ------------------------------------------------------------ the page
InitRev ==
    /\ upload_raw = None
    /\ upload_meta = None
    /\ store_raw_json = None
    /\ store_meta_json = None
    /\ store_uirev = None
    /\ raw_file_name = ""
    /\ meta_file_name = ""
    /\ trim_slider = Slider(0, OneSecond, <<0, OneSecond>>)
    /\ status_output = ""
    /\ ui_store = None
    /\ relayoutData = None
    /\ restyleData = None
    /\ gyro_graph = EmptyFigure
    /\ stats_output = None
    /\ slider_values = None
    /\ pending = {"handle_uploads", "update_graph"}
    /\ callback_error = [handle_uploads |-> "", update_graph |-> ""]

\* Dash runs handle_uploads when an upload's contents change.
HandleUploads ==
    /\ UNCHANGED <<uaVars, pdVars>>
    /\ "handle_uploads" \in pending
    /\ LET r == handle_uploads(upload_raw, upload_meta)
       IN  /\ callback_error' =
                 [callback_error EXCEPT !.handle_uploads = r.exc]
           /\ IF r.exc # ""
              THEN /\ pending' = pending \ {"handle_uploads"}
                   /\ UNCHANGED <<store_raw_json, store_meta_json,
                                  store_uirev, raw_file_name, meta_file_name,
                                  trim_slider, status_output, ui_store>>
              ELSE /\ pending' = (pending \ {"handle_uploads"})
                                   \cup {"update_graph"}
                   /\ store_raw_json' = r.store_raw_json
                   /\ store_meta_json' = r.store_meta_json
                   /\ store_uirev' = r.store_uirev
                   /\ raw_file_name' = r.raw_file_name
                   /\ meta_file_name' = r.meta_file_name
                   /\ trim_slider' = r.trim_slider
                   /\ status_output' = r.status_output
                   /\ ui_store' = r.ui_store
    /\ UNCHANGED <<upload_raw, upload_meta, relayoutData, restyleData,
                   gyro_graph, stats_output, slider_values>>

\* Dash runs update_graph when one of its inputs changes, after the
\* callbacks that write its inputs have returned.
UpdateGraph ==
    /\ UNCHANGED <<uaVars, pdVars>>
    /\ "update_graph" \in pending
    /\ "handle_uploads" \notin pending
    /\ pending' = pending \ {"update_graph"}
    /\ LET r == update_graph(trim_slider.value, store_raw_json,
                             store_meta_json, relayoutData, restyleData,
                             store_uirev, ui_store)
       IN  /\ callback_error' =
                 [callback_error EXCEPT !.update_graph = r.exc]
           /\ IF r.exc # ""
              THEN UNCHANGED <<gyro_graph, stats_output, slider_values,
                               ui_store>>
              ELSE /\ gyro_graph' = r.gyro_graph
                   /\ stats_output' = r.stats_output
                   /\ slider_values' = r.slider_values
                   /\ ui_store' = r.ui_store
    /\ UNCHANGED <<upload_raw, upload_meta, store_raw_json, store_meta_json,
                   store_uirev, raw_file_name, meta_file_name, trim_slider,
                   status_output, relayoutData, restyleData>>

\* Each recomputation runs to completion before the next interaction is
\* accepted: the user acts on a page with no callback outstanding.
\* The user drops a file on an upload component.
UploadRaw(f) ==
    /\ UNCHANGED <<uaVars, pdVars>>
    /\ pending = {}
    /\ upload_raw # Some(f)
    /\ upload_raw' = Some(f)
    /\ pending' = pending \cup {"handle_uploads"}
    /\ UNCHANGED <<upload_meta, store_raw_json, store_meta_json, store_uirev,
                   raw_file_name, meta_file_name, trim_slider, status_output,
                   ui_store, relayoutData, restyleData, gyro_graph,
                   stats_output, slider_values, callback_error>>

UploadMeta(m) ==
    /\ UNCHANGED <<uaVars, pdVars>>
    /\ pending = {}
    /\ upload_meta # Some(m)
    /\ upload_meta' = Some(m)
    /\ pending' = pending \cup {"handle_uploads"}
    /\ UNCHANGED <<upload_raw, store_raw_json, store_meta_json, store_uirev,
                   raw_file_name, meta_file_name, trim_slider, status_output,
                   ui_store, relayoutData, restyleData, gyro_graph,
                   stats_output, slider_values, callback_error>>

\* The user drags a handle of the range slider (allowCross=False).
SliderMove(lo, hi) ==
    /\ UNCHANGED <<uaVars, pdVars>>
    /\ pending = {}
    /\ FLe(trim_slider.min, lo) /\ FLe(lo, hi) /\ FLe(hi, trim_slider.max)
    /\ trim_slider.value # <<lo, hi>>
    /\ trim_slider' = [trim_slider EXCEPT !.value = <<lo, hi>>]
    /\ pending' = pending \cup {"update_graph"}
    /\ UNCHANGED <<upload_raw, upload_meta, store_raw_json, store_meta_json,
                   store_uirev, raw_file_name, meta_file_name, status_output,
                   ui_store, relayoutData, restyleData, gyro_graph,
                   stats_output, slider_values, callback_error>>

\* The user zooms or pans the graph: Plotly reports the changed layout keys.
Relayout(r) ==
    /\ UNCHANGED <<uaVars, pdVars>>
    /\ pending = {}
    /\ relayoutData # Some(r)
    /\ relayoutData' = Some(r)
    /\ pending' = pending \cup {"update_graph"}
    /\ UNCHANGED <<upload_raw, upload_meta, store_raw_json, store_meta_json,
                   store_uirev, raw_file_name, meta_file_name, trim_slider,
                   status_output, ui_store, restyleData, gyro_graph,
                   stats_output, slider_values, callback_error>>

\* The user clicks a legend entry of a trace on display: Plotly reports
\* [{"visible": [...]}, idxs].
Restyle(s) ==
    /\ UNCHANGED <<uaVars, pdVars>>
    /\ pending = {}
    /\ \A i \in 1..Len(s[2]) : s[2][i] < Len(gyro_graph.traces)
    /\ restyleData # Some(s)
    /\ restyleData' = Some(s)
    /\ pending' = pending \cup {"update_graph"}
    /\ UNCHANGED <<upload_raw, upload_meta, store_raw_json, store_meta_json,
                   store_uirev, raw_file_name, meta_file_name, trim_slider,
                   status_output, ui_store, relayoutData, gyro_graph,
                   stats_output, slider_values, callback_error>>

\* ==================================================== update_all
\* A RAW upload of the upload page also carries the three gyroscope
\* columns and the dtype pandas gives them: int64 when the file writes every
\* value as an integer literal, float64 otherwise.
UaRawFile(name, ok, cols, time, w, dtype) ==
    [name |-> name, ok |-> ok, cols |-> cols, time |-> time, w |-> w,
     dtype |-> dtype]

Axes == {"x", "y", "z"}

\* c.strip()
StripSpaces(c) ==
    CASE c = " Time (s)" -> "Time (s)"
      [] c = "event " -> "event"
      [] OTHER -> c

\* c.strip(";")
StripSemicolons(c) ==
    CASE c = "system time;" -> "system time"
      [] OTHER -> c

\* c.lower().startswith("gyro")
StartsWithGyro(c) ==
    c \in {"Gyroscope x (rad/s)", "Gyroscope y (rad/s)",
           "Gyroscope z (rad/s)"}

\* c.lower().startswith("accel")
StartsWithAccel(c) == c \in {"Acceleration x (m/s^2)"}

GyroColumn(a) ==
    CASE a = "x" -> "Gyroscope x (rad/s)"
      [] a = "y" -> "Gyroscope y (rad/s)"
      [] a = "z" -> "Gyroscope z (rad/s)"

AngleColumn(a) ==
    CASE a = "x" -> "Angle x (rad)"
      [] a = "y" -> "Angle y (rad)"
      [] a = "z" -> "Angle z (rad)"

\* Python's max(a, b) and min(a, b): the first argument unless the second
\* compares greater (smaller); a NaN never does.
PyMax(a, b) == IF a # NaN /\ b # NaN /\ b > a THEN b ELSE a
PyMin(a, b) == IF a # NaN /\ b # NaN /\ b < a THEN b ELSE a

\* Angles are counted in units of 1/(2 * OneSecond) rad, which holds
\* 0.5 * (w[i-1] + w[i]) * dt exactly for w in rad/s and dt in sub-units.
AngleUnit == 2 * OneSecond

\* Assignment into an array made by np.zeros_like(w): a float64 array keeps
\* the value, an int64 array keeps its integer part (toward zero).
StoreAs(dtype, a) ==
    IF dtype = "float64" THEN a
    ELSE IF a >= 0 THEN (a \div AngleUnit) * AngleUnit
    ELSE 0 - (((0 - a) \div AngleUnit) * AngleUnit)

\* angle[0] = 0; angle[i] = angle[i-1] + 0.5*(w[i-1] + w[i])*dt
Integrate(t, w, dtype) ==
    LET angle[i \in 1..Len(t)] ==
            IF i = 1 THEN 0
            ELSE StoreAs(dtype,
                         angle[i - 1] + (w[i - 1] + w[i]) * (t[i] - t[i - 1]))
    IN  angle

Pick(s, rows) == [k \in 1..Len(rows) |-> s[rows[k]]]

UaFigure(title, rows, x, y) ==
    [title |-> title, rows |-> rows, x |-> x, y |-> y]

\* The text of "stats-output": a message, or the mean/std table.
UaStats(text, table) == [text |-> text, table |-> table]

\* The text of "file-status".
UaStatus(text, raw_name, meta_name) ==
    [text |-> text, raw |-> raw_name, meta |-> meta_name]

UaReset(title, stats, status) ==
    [exc |-> "",
     gyro_plot |-> UaFigure(title, <<>>, <<>>, EmptyDict),
     stats_output |-> UaStats(stats, EmptyDict),
     slider_values |-> None,
     trim_slider |-> Slider(0, OneSecond, <<0, OneSecond>>),
     file_status |-> UaStatus(status, "", "")]

\* datetime.fromtimestamp(ts, ZoneInfo("Europe/Berlin")): the instant, in
\* whole microseconds.
fromtimestamp(ts) == RoundHalfEven(ts)

update_all(trim_range, raw_contents, meta_contents) ==
    IF IsNone(raw_contents) \/ IsNone(meta_contents)
    THEN UaReset("Upload Both CSV Files To Begin", "No data loaded.",
                 "Please upload BOTH raw and meta CSV files.")
    ELSE
    LET raw == Get(raw_contents)
        meta == Get(meta_contents)
    IN
    IF ~raw.ok \/ ~meta.ok
    THEN UaReset("", "Error reading files.", "Error")
    ELSE
    LET raw_cols == [i \in 1..Len(raw.cols) |-> StripSpaces(raw.cols[i])]
        meta_cols == [i \in 1..Len(meta.cols) |-> StripSemicolons(meta.cols[i])]
    IN
    IF \/ ~InSeq("system time", meta_cols)
       \/ Len(meta.rows) < 2
       \/ meta.rows[1][2] = NotFloat
       \/ meta.rows[2][2] = NotFloat
    THEN UaReset("", "Invalid META file format.", "Meta file error")
    ELSE
    LET start_system_time == meta.rows[1][2]
        start_dt == fromtimestamp(start_system_time)
    IN
    IF ~InSeq("Time (s)", raw_cols)
    THEN UaReset("", "Missing 'Time (s)' in raw data.",
                 "RAW file missing required column.")
    ELSE IF \E i \in 1..Len(raw.time) : raw.time[i] \in {NaN, NotFloat}
    THEN Raise("ValueError")
    ELSE
    LET true_time == AlignTrueTime(raw.time, start_dt)
        t_max == SeriesMax(raw.time)
        tmin == PyMax(0, trim_range[1])
        tmax == PyMin(t_max, trim_range[2])
        dff == Slice(raw.time, tmin, tmax)
        columns == raw_cols \o <<"true_time">>
        measurement_type ==
            IF StartsWithGyro(columns[2]) THEN "Gyroscope"
            ELSE IF StartsWithAccel(columns[2]) THEN "Accelerometer"
            ELSE "Unknown"
    IN
    IF measurement_type = "Gyroscope"
       /\ \E a \in Axes : ~InSeq(GyroColumn(a), raw_cols)
    THEN Raise("KeyError")
    ELSE
    LET t == Pick(raw.time, dff)
        angle == [a \in Axes |->
                    Integrate(t, Pick(raw.w[a], dff), raw.dtype)]
        \* the square of "Angle magnitude (rad)"
        angle_mag == [k \in 1..Len(dff) |->
                        angle["x"][k] * angle["x"][k]
                        + angle["y"][k] * angle["y"][k]
                        + angle["z"][k] * angle["z"][k]]
        gyro == [c \in {GyroColumn(a) : a \in Axes} |->
                    Pick(raw.w[CHOOSE a \in Axes : GyroColumn(a) = c], dff)]
        angles == [c \in {AngleColumn(a) : a \in Axes} |->
                    angle[CHOOSE a \in Axes : AngleColumn(a) = c]]
        y == IF measurement_type = "Gyroscope"
             THEN gyro @@ angles @@ ("Angle magnitude (rad)" :> angle_mag)
             ELSE EmptyDict
        data_cols == {c \in DOMAIN y : ~ContainsTime(c)}
    IN
    [exc |-> "",
     gyro_plot |->
        UaFigure(measurement_type, dff, Pick(true_time, dff), y),
     stats_output |->
        UaStats("", [c \in data_cols |->
                        [mean_nan |-> Len(dff) = 0,
                         std_nan |-> Len(dff) <= 1]]),
     slider_values |-> Some(<<tmin, tmax, tmax - tmin>>),
     trim_slider |-> Slider(0, t_max, <<tmin, tmax>>),
     file_status |-> UaStatus("Loaded", raw.name, meta.name)]

InitUa ==
    /\ ua_upload_raw = None
    /\ ua_upload_meta = None
    /\ ua_trim_slider = Slider(0, OneSecond, <<0, OneSecond>>)
    /\ ua_gyro_plot = UaFigure("", <<>>, <<>>, EmptyDict)
    /\ ua_stats_output = UaStats("", EmptyDict)
    /\ ua_slider_values = None
    /\ ua_file_status = UaStatus("", "", "")
    /\ ua_pending = TRUE
    /\ ua_error = ""

\* ===================================================== update_plot
PdFigure(rows, x) == [rows |-> rows, x |-> x]

\* plot_data.py reads Raw_Data.csv when the module is imported; the layout
\* sets the slider to the whole log.  Absolute times are counted from
\* start_dt, in whole microseconds.
InitPd(time) ==
    /\ pd_df = time
    /\ pd_trim_slider = Slider(0, SeriesMax(time), <<0, SeriesMax(time)>>)
    /\ pd_gyro_plot = PdFigure(<<>>, <<>>)
    /\ pd_stats_output = EmptyDict
    /\ pd_slider_values = None
    /\ pd_pending = TRUE

update_plot(trim_range) ==
    LET tmin == trim_range[1]
        tmax == trim_range[2]
        dff == Slice(pd_df, tmin, tmax)
    IN  [gyro_plot |->
            PdFigure(dff, [k \in 1..Len(dff) |-> timedelta(pd_df[dff[k]])]),
         stats_output |->
            [c \in {GyroNames[i] : i \in 1..Len(GyroNames)} |->
                [mean_nan |-> Len(dff) = 0, std_nan |-> Len(dff) <= 1]],
         slider_values |-> Some(<<tmin, tmax, tmax - tmin>>)]

\* Dash runs update_plot when the slider value changes.
UpdatePlot ==
    /\ pd_pending
    /\ pd_pending' = FALSE
    /\ LET r == update_plot(pd_trim_slider.value)
       IN  /\ pd_gyro_plot' = r.gyro_plot
           /\ pd_stats_output' = r.stats_output
           /\ pd_slider_values' = r.slider_values
    /\ UNCHANGED <<pd_df, pd_trim_slider>>
    /\ UNCHANGED <<revVars, uaVars>>

PdSliderMove(lo, hi) ==
    /\ ~pd_pending
    /\ FLe(pd_trim_slider.min, lo) /\ FLe(lo, hi)
    /\ FLe(hi, pd_trim_slider.max)
    /\ pd_trim_slider.value # <<lo, hi>>
    /\ pd_trim_slider' = [pd_trim_slider EXCEPT !.value = <<lo, hi>>]
    /\ pd_pending' = TRUE
    /\ UNCHANGED <<pd_df, pd_gyro_plot, pd_stats_output, pd_slider_values>>
    /\ UNCHANGED <<revVars, uaVars>>

Init == InitRev /\ InitUa /\ InitPd(<<>>)

\* Dash runs update_all when the slider value or an upload changes.
UpdateAll ==
    /\ ua_pending
    /\ ua_pending' = FALSE
    /\ LET r == update_all(ua_trim_slider.value, ua_upload_raw,
                           ua_upload_meta)
       IN  /\ ua_error' = r.exc
           /\ IF r.exc # ""
              THEN UNCHANGED <<ua_gyro_plot, ua_stats_output,
                               ua_slider_values, ua_trim_slider,
                               ua_file_status>>
              ELSE /\ ua_gyro_plot' = r.gyro_plot
                   /\ ua_stats_output' = r.stats_output
                   /\ ua_slider_values' = r.slider_values
                   /\ ua_trim_slider' = r.trim_slider
                   /\ ua_file_status' = r.file_status
    /\ UNCHANGED <<ua_upload_raw, ua_upload_meta>>
    /\ UNCHANGED <<revVars, pdVars>>

UaUploadRaw(f) ==
    /\ ~ua_pending
    /\ ua_upload_raw # Some(f)
    /\ ua_upload_raw' = Some(f)
    /\ ua_pending' = TRUE
    /\ UNCHANGED <<ua_upload_meta, ua_trim_slider, ua_gyro_plot,
                   ua_stats_output, ua_slider_values, ua_file_status,
                   ua_error>>
    /\ UNCHANGED <<revVars, pdVars>>

UaUploadMeta(m) ==
    /\ ~ua_pending
    /\ ua_upload_meta # Some(m)
    /\ ua_upload_meta' = Some(m)
    /\ ua_pending' = TRUE
    /\ UNCHANGED <<ua_upload_raw, ua_trim_slider, ua_gyro_plot,
                   ua_stats_output, ua_slider_values, ua_file_status,
                   ua_error>>
    /\ UNCHANGED <<revVars, pdVars>>

UaSliderMove(lo, hi) ==
    /\ ~ua_pending
    /\ FLe(ua_trim_slider.min, lo) /\ FLe(lo, hi)
    /\ FLe(hi, ua_trim_slider.max)
    /\ ua_trim_slider.value # <<lo, hi>>
    /\ ua_trim_slider' = [ua_trim_slider EXCEPT !.value = <<lo, hi>>]
    /\ ua_pending' = TRUE
    /\ UNCHANGED <<ua_upload_raw, ua_upload_meta, ua_gyro_plot,
                   ua_stats_output, ua_slider_values, ua_file_status,
                   ua_error>>
    /\ UNCHANGED <<revVars, pdVars>>

\* ------------------------------------------------- inputs of the page
Names == {"a.csv", "b.csv"}

\* Relative-time columns that start at 0 and rise by a fixed step.
Ramp(n, step) == [i \in 1..n |-> (i - 1) * step]

\* View-state runs: two names, two row counts, two contents of one identity.
ViewRawFiles ==
    {RawFile(n, TRUE, GyroCols, Ramp(ViewRows, 1)) : n \in Names}
    \cup {RawFile("a.csv", TRUE, GyroCols, Ramp(k, 2)) :
            k \in (ViewRows - 1)..ViewRows}

ViewMetaFiles ==
    {MetaFile("meta.csv", TRUE, MetaCols, <<<<"START", 0>>, <<"PAUSE", 1>>>>)}

Ranges == 1..NumRanges

RelayoutValues ==
    {("xaxis.range" :> r) : r \in Ranges}
    \cup {("yaxis.range" :> r) : r \in Ranges}
    \cup {("autosize" :> 1)}

VisibleValues == {"legendonly", "shown"}

RestyleValues ==
    {<<("visible" :> <<v>>), <<tr>>>> :
        v \in VisibleValues, tr \in 0..MaxTrace}

ViewSliderPoints == 0..ViewRows

NextView ==
    \/ HandleUploads
    \/ UpdateGraph
    \/ \E f \in ViewRawFiles : UploadRaw(f)
    \/ \E m \in ViewMetaFiles : UploadMeta(m)
    \/ \E lo, hi \in ViewSliderPoints : SliderMove(lo, hi)
    \/ \E r \in RelayoutValues : Relayout(r)
    \/ \E s \in RestyleValues : Restyle(s)

\* The revising-graph page under zooms, legend clicks and reloads.
Spec == Init /\ [][NextView]_vars

\* Load runs: every small META table, and RAW tables of each kind.
MetaCells == {"START", "PAUSE"} \X ((0..MaxEpoch) \cup {NotFloat})

LoadMetaFiles ==
    {MetaFile("meta.csv", TRUE, MetaCols, rows) :
        rows \in SeqsOf(MetaCells, 0, MaxMetaRows)}
    \cup {MetaFile("meta.csv", TRUE, MetaNoEventCols,
                   <<<<"START", 0>>, <<"PAUSE", 1>>>>),
          MetaFile("meta.csv", FALSE, <<>>, <<>>)}

LoadRawFiles ==
    {RawFile("a.csv", TRUE, GyroCols, t) :
        t \in {Ramp(2, 1), <<0 - 1, 0>>, <<0, NaN>>, <<0, NotFloat>>}}
    \cup {RawFile("a.csv", TRUE, AccelCols, Ramp(2, 1)),
          RawFile("a.csv", TRUE, NoTimeCols, <<>>),
          RawFile("a.csv", FALSE, <<>>, <<>>)}

NextLoad ==
    \/ HandleUploads
    \/ UpdateGraph
    \/ \E f \in LoadRawFiles : UploadRaw(f)
    \/ \E m \in LoadMetaFiles : UploadMeta(m)

\* The revising-graph page under uploads of well- and ill-formed files.
SpecLoad == Init /\ [][NextLoad]_vars

\* Alignment runs: every small relative-time column in ascending order (the
\* order a sensor log is written in) and every START time.
Ascending(S, lo, hi) ==
    {t \in SeqsOf(S, lo, hi) : \A i \in 1..Len(t) - 1 : t[i] <= t[i + 1]}

AlignRawFiles ==
    {RawFile("a.csv", TRUE, GyroCols, t) :
        t \in Ascending(0..MaxTime, 0, MaxRows)}

AlignMetaFiles ==
    {MetaFile("meta.csv", TRUE, MetaCols,
              <<<<"START", s>>, <<"PAUSE", s + 1>>>>) : s \in 0..MaxEpoch}

NextAlign ==
    \/ HandleUploads
    \/ UpdateGraph
    \/ \E f \in AlignRawFiles : UploadRaw(f)
    \/ \E m \in AlignMetaFiles : UploadMeta(m)

\* The revising-graph page under uploads of well-formed files.
SpecAlign == Init /\ [][NextAlign]_vars

\* Static-page runs: every small "Time (s)" column, in any order, and every
\* window of the slider.
PlotFrames == SeqsOf(0..PlotTime, 0, PlotRows)

InitPlot == InitRev /\ InitUa /\ \E time \in PlotFrames : InitPd(time)

NextPlot ==
    \/ UpdatePlot
    \/ \E lo, hi \in 0..PlotTime : PdSliderMove(lo, hi)

\* The static page of plot_data.py under trims.
SpecPlot == InitPlot /\ [][NextPlot]_vars

\* Upload-page runs: gyroscope logs sampled one sub-unit apart, every row
\* drawn from a few angular-velocity triples, written as integers or not.
WRows == {<<0, 0, 0>>, <<1, 2, 0>>, <<2, 0 - 1, 1>>}

UaGyroFile(n, rows, dtype) ==
    UaRawFile("a.csv", TRUE, GyroCols, Ramp(n, 1),
              [a \in Axes |->
                 [i \in 1..n |-> rows[i][CASE a = "x" -> 1
                                           [] a = "y" -> 2
                                           [] a = "z" -> 3]]],
              dtype)

UpRawFiles ==
    {UaGyroFile(Len(rows), rows, dtype) :
        rows \in SeqsOf(WRows, 0, UpRows), dtype \in {"int64", "float64"}}

UpMetaFiles ==
    {MetaFile("meta.csv", TRUE, MetaCols, <<<<"START", 0>>, <<"PAUSE", 1>>>>),
     MetaFile("meta.csv", TRUE, MetaCols, <<<<"START", 0>>>>)}

NextUp ==
    \/ UpdateAll
    \/ \E f \in UpRawFiles : UaUploadRaw(f)
    \/ \E m \in UpMetaFiles : UaUploadMeta(m)
    \/ \E lo, hi \in 0..UpRows : UaSliderMove(lo, hi)

\* The upload page under uploads and trims.
SpecUp == Init /\ [][NextUp]_vars

\* Window runs: gyroscope logs and logs with no gyroscope column, with
\* samples two sub-units apart, and every window of the slider.
WindowRawFiles ==
    {RawFile("a.csv", TRUE, cols, Ramp(n, 2)) :
        cols \in {GyroCols, AccelCols}, n \in 1..MaxRows}

NextWindow ==
    \/ HandleUploads
    \/ UpdateGraph
    \/ \E f \in WindowRawFiles : UploadRaw(f)
    \/ \E m \in ViewMetaFiles : UploadMeta(m)
    \/ \E lo, hi \in 0..MaxTime : SliderMove(lo, hi)

\* The revising-graph page under uploads and trims.
SpecWindow == Init /\ [][NextWindow]_vars

\* ================================================================ claims
HandleUploadsStep ==
    "handle_uploads" \in pending /\ "handle_uploads" \notin pending'

UpdateGraphStep ==
    "update_graph" \in pending /\ "update_graph" \notin pending'

Loaded == ~IsNone(store_raw_json)

LoadOk == "Files loaded successfully."

\* --- C1 -----------------------------------------------------------------
\* C1 (as claimed): the first figure rendered for a dataset whose identity
\* differs from the one on display carries nothing of the earlier view: the
\* stored view state is empty after that recomputation and the figure has no
\* x-range, y-range or visibility flag applied.
C1_ViewStateEmptyForNewDataset ==
    [][(/\ UpdateGraphStep
        /\ Loaded
        /\ ~IsNone(gyro_graph.uirevision)
        /\ gyro_graph.uirevision # store_uirev)
       => (/\ ui_store' = Some(EmptyDict)
           /\ gyro_graph'.xrange = None
           /\ gyro_graph'.yrange = None
           /\ gyro_graph'.visible = EmptyDict)]_vars

\* --- C2 -----------------------------------------------------------------
\* C2 (as claimed): while the identity token stays the same, a reload leaves
\* the stored view state as it was, and a recomputation keeps every key the
\* stored view state held.
C2_ViewStatePersistsForSameIdentity ==
    [][(/\ ~IsNone(store_uirev)
        /\ store_uirev' = store_uirev
        /\ ~IsNone(ui_store))
       => (/\ HandleUploadsStep => ui_store' = ui_store
           /\ UpdateGraphStep =>
                DOMAIN Get(ui_store) \subseteq DOMAIN Get(ui_store'))]_vars

\* --- C3 -----------------------------------------------------------------
LoadFailed ==
    /\ HandleUploadsStep
    /\ \/ callback_error'.handle_uploads # ""
       \/ status_output' # LoadOk

\* C3 (as claimed): a load that fails after a dataset was loaded leaves the
\* stored dataset, its anchors and the slider bounds as they were, and
\* produces a diagnostic message.
C3_FailedLoadKeepsDataset ==
    [][(Loaded /\ LoadFailed)
       => (/\ store_raw_json' = store_raw_json
           /\ store_meta_json' = store_meta_json
           /\ trim_slider' = trim_slider
           /\ callback_error'.handle_uploads = ""
           /\ status_output' # LoadOk)]_vars

\* --- C4 -----------------------------------------------------------------
\* C4: once update_plot has run on the slider's window, the rows of the
\* figure are exactly the samples whose relative time lies in the window,
\* both ends included: every row shown is in range, every sample in range is
\* shown, and the rows are in dataset order.
C4_WindowSliceExact ==
    ~pd_pending
    => LET lo == pd_trim_slider.value[1]
           hi == pd_trim_slider.value[2]
           rows == pd_gyro_plot.rows
       IN  /\ \A k \in 1..Len(rows) :
                /\ rows[k] \in 1..Len(pd_df)
                /\ lo <= pd_df[rows[k]] /\ pd_df[rows[k]] <= hi
           /\ \A i \in 1..Len(pd_df) :
                (lo <= pd_df[i] /\ pd_df[i] <= hi)
                => \E k \in 1..Len(rows) : rows[k] = i
           /\ \A k \in 1..Len(rows) - 1 : rows[k] < rows[k + 1]

\* A window strictly inside the log with a sample on each of its edges,
\* which shows two samples or more and leaves one or more out.
C4_Witness ==
    /\ ~pd_pending
    /\ LET lo == pd_trim_slider.value[1]
           hi == pd_trim_slider.value[2]
       IN  /\ 0 < lo /\ lo < hi /\ hi < pd_trim_slider.max
           /\ \E i \in 1..Len(pd_df) : pd_df[i] = lo
           /\ \E i \in 1..Len(pd_df) : pd_df[i] = hi
           /\ Len(pd_gyro_plot.rows) >= 2
           /\ Len(pd_gyro_plot.rows) < Len(pd_df)

\* --- C5 -----------------------------------------------------------------
UaLoaded ==
    /\ ~ua_pending /\ ua_error = ""
    /\ ua_file_status.text = "Loaded"

\* C5 (as claimed): once update_all has loaded a dataset that has samples,
\* the window it sliced with and wrote back to the slider satisfies
\* 0 <= t_min <= t_max <= dataset_max_time.
C5_WindowWithinBounds ==
    (UaLoaded /\ Get(ua_upload_raw).time # <<>>)
    => /\ 0 <= ua_trim_slider.value[1]
       /\ ua_trim_slider.value[1] <= ua_trim_slider.value[2]
       /\ ua_trim_slider.value[2] <= ua_trim_slider.max
       /\ ua_trim_slider.max = SeriesMax(Get(ua_upload_raw).time)

\* --- C6 -----------------------------------------------------------------
\* C6 (as claimed): in a figure of a gyroscope log, each angle column starts
\* at 0 and follows angle[k] = angle[k-1] + 0.5*(w[k-1] + w[k])*(t[k] - t[k-1])
\* over the samples integrated (angles in units of 1/(2 * OneSecond) rad).
C6_TrapezoidRecurrence ==
    (UaLoaded /\ ua_gyro_plot.title = "Gyroscope")
    => LET t == Pick(Get(ua_upload_raw).time, ua_gyro_plot.rows)
       IN  \A a \in Axes :
             LET angle == ua_gyro_plot.y[AngleColumn(a)]
                 w == ua_gyro_plot.y[GyroColumn(a)]
             IN  /\ Len(angle) = Len(t)
                 /\ Len(t) >= 1 => angle[1] = 0
                 /\ \A k \in 2..Len(t) :
                      angle[k] = angle[k - 1]
                                 + (w[k - 1] + w[k]) * (t[k] - t[k - 1])

\* --- C7 -----------------------------------------------------------------
BothParsed ==
    /\ ~IsNone(upload_raw) /\ ~IsNone(upload_meta)
    /\ Get(upload_raw).ok /\ Get(upload_meta).ok

HasMetaColumns ==
    /\ \E i \in 1..Len(Get(upload_meta).cols) :
            ContainsEvent(StripName(Get(upload_meta).cols[i]))
    /\ \E i \in 1..Len(Get(upload_meta).cols) :
            ContainsSystem(StripName(Get(upload_meta).cols[i]))

\* No START row, no PAUSE row, fewer than two rows, or text in the system
\* time of the first START or PAUSE row.
MetaUnresolvable(rows) ==
    \/ Len(rows) < 2
    \/ ~\E i \in 1..Len(rows) : rows[i][1] = "START"
    \/ ~\E i \in 1..Len(rows) : rows[i][1] = "PAUSE"
    \/ \E i \in 1..Len(rows) :
        /\ rows[i][2] = NotFloat
        /\ \A j \in 1..i - 1 : rows[j][1] # rows[i][1]

HandleUploadsDone == "handle_uploads" \notin pending

\* C7 (as claimed): once handle_uploads has run on a META table that has the
\* event and system columns but cannot be resolved, it has returned (no
\* exception), the status is a diagnostic and no dataset is stored.
C7_UnresolvableMetaIsDiagnosed ==
    (/\ HandleUploadsDone /\ BothParsed /\ HasMetaColumns
     /\ MetaUnresolvable(Get(upload_meta).rows))
    => (/\ callback_error.handle_uploads = ""
        /\ status_output # LoadOk
        /\ IsNone(store_raw_json)
        /\ IsNone(store_meta_json))

\* --- C8 -----------------------------------------------------------------
\* C8 (as claimed): whenever a dataset is loaded, the stored anchors satisfy
\* pause_epoch > start_epoch.
C8_PauseAfterStart ==
    ~IsNone(store_meta_json)
    => Get(store_meta_json).pause > Get(store_meta_json).start

\* --- C9 -----------------------------------------------------------------
Abs(x) == IF x < 0 THEN 0 - x ELSE x

\* q is the whole microsecond nearest to x sub-units, ties to the even one.
NearestMicrosecond(q, x) ==
    \/ 2 * Abs(Sub * q - x) < Sub
    \/ 2 * Abs(Sub * q - x) = Sub /\ q % 2 = 0

MetaResolvable == HasMetaColumns /\ ~MetaUnresolvable(Get(upload_meta).rows)

RawHasTimeColumn ==
    \E i \in 1..Len(Get(upload_raw).cols) :
        ContainsTime(StripName(Get(upload_raw).cols[i]))

RawTimesValid ==
    \A i \in 1..Len(Get(upload_raw).time) :
        /\ Get(upload_raw).time[i] \notin {NaN, NotFloat}
        /\ Get(upload_raw).time[i] >= 0

\* C10 (as claimed): once handle_uploads has run on a RAW table with no
\* time-like column, or with a negative or non-finite relative time, it has
\* returned (no exception) with a diagnostic and no dataset stored; a table
\* with a time-like column and only finite non-negative times is aligned.
C10_InvalidTimesAreDiagnosed ==
    (HandleUploadsDone /\ BothParsed /\ MetaResolvable)
    => IF RawHasTimeColumn /\ RawTimesValid
       THEN /\ callback_error.handle_uploads = ""
            /\ status_output = LoadOk
            /\ Loaded
       ELSE /\ callback_error.handle_uploads = ""
            /\ status_output # LoadOk
            /\ IsNone(store_raw_json)

\* --- C11 ----------------------------------------------------------------
\* The window of the slider holds no sample of the dataset on display.
EmptyWindow ==
    /\ pending = {}
    /\ Loaded
    /\ Get(store_raw_json).time # <<>>
    /\ Slice(Get(store_raw_json).time,
             trim_slider.value[1], trim_slider.value[2]) = <<>>

\* C11 (as claimed): once update_graph has run on a window that contains no
\* sample, it has completed without raising and the statistics it reports
\* are NaN for the mean and the standard deviation of every column, for a
\* gyroscope log and for a log with no recognised signal column alike.
C11_EmptyWindowGivesNaN ==
    EmptyWindow
    => /\ callback_error.update_graph = ""
       /\ gyro_graph.rows = <<>>
       /\ ~IsNone(stats_output)
       /\ \A i \in 1..Len(Get(stats_output)) :
            Get(stats_output)[i].mean_nan /\ Get(stats_output)[i].std_nan

\* --- C12 ----------------------------------------------------------------
\* pause_epoch - (start_epoch + last relative time) of the stored dataset.
Drift ==
    LET df == Get(store_raw_json)
        anchors == Get(store_meta_json)
    IN  anchors.pause - (anchors.start + df.time[Len(df.time)])

\* A dataset with samples, non-negative relative times and PAUSE after START.
ValidDataset ==
    /\ Loaded
    /\ Get(store_raw_json).time # <<>>
    /\ \A i \in 1..Len(Get(store_raw_json).time) :
         Get(store_raw_json).time[i] >= 0
    /\ Get(store_meta_json).pause > Get(store_meta_json).start

\* C12 (as claimed): the texts handle_uploads writes after a load carry the
\* drift of the dataset: when a valid load replaces a valid dataset by one
\* of another drift, the status and file-name texts are not all the same as before.
C12_DriftIsReported ==
    [][(/\ HandleUploadsStep
        /\ ValidDataset /\ ValidDataset'
        /\ Drift' # Drift)
       => <<status_output, raw_file_name, meta_file_name>>'
            # <<status_output, raw_file_name, meta_file_name>>]_vars

\* --- C13 ----------------------------------------------------------------
\* C13 (as claimed): in a figure of a gyroscope log, the angle shown for a
\* sample is the integral from the first sample of the dataset, whatever the
\* window: it equals the angle the same accumulation gives that sample over
\* the whole dataset, and so does the angle magnitude.
C13_AngleIndependentOfWindow ==
    (UaLoaded /\ ua_gyro_plot.title = "Gyroscope")
    => LET raw == Get(ua_upload_raw)
           rows == ua_gyro_plot.rows
           whole == [a \in Axes |-> Integrate(raw.time, raw.w[a], raw.dtype)]
       IN  \A k \in 1..Len(rows) :
             /\ \A a \in Axes :
                  ua_gyro_plot.y[AngleColumn(a)][k] = whole[a][rows[k]]
             /\ ua_gyro_plot.y["Angle magnitude (rad)"][k]
                  = whole["x"][rows[k]] * whole["x"][rows[k]]
                    + whole["y"][rows[k]] * whole["y"][rows[k]]
                    + whole["z"][rows[k]] * whole["z"][rows[k]]

\* --- C14 ----------------------------------------------------------------
\* The visibility flags of a view state by trace index, whether the key is
\* the int the merge wrote or the str the store gave back.
Flags(ui_state) ==
    IF "visible" \notin DOMAIN ui_state THEN EmptyDict
    ELSE LET v == ui_state["visible"]
         IN  [n \in {k[2] : k \in DOMAIN v} |->
                IF <<"int", n>> \in DOMAIN v THEN v[<<"int", n>>]
                ELSE v[<<"str", n>>]]

\* The range a view state holds under a key, or None.
RangeOf(ui_state, key) ==
    IF key \in DOMAIN ui_state THEN Some(ui_state[key]) ELSE None

\* The range relayoutData carries for an axis, or None.
Carried(axis) ==
    IF ~IsNone(relayoutData) /\ axis \in DOMAIN Get(relayoutData)
    THEN Some(Get(relayoutData)[axis]) ELSE None

\* The flags restyleData carries, by trace index.
CarriedFlags ==
    IF IsNone(restyleData) \/ "visible" \notin DOMAIN Get(restyleData)[1]
    THEN EmptyDict
    ELSE LET vals == Get(restyleData)[1]["visible"]
             idxs == Get(restyleData)[2]
         IN  [n \in {idxs[i] : i \in 1..Len(idxs)} |->
                vals[CHOOSE i \in 1..Len(idxs) :
                        idxs[i] = n /\ \A j \in 1..Len(idxs) :
                                          idxs[j] = n => j <= i]]

\* C14 (as claimed): a recomputation of a loaded dataset merges what the
\* interaction inputs carry into the view state, last write winning per key,
\* and changes nothing else: each axis range becomes the one carried, or
\* stays as it was when none is carried; each flag becomes the one carried
\* for its trace index, or stays as it was; with nothing carried the view
\* state is the same after the recomputation as before.
C14_MergeIsLastWriteWins ==
    [][(UpdateGraphStep /\ Loaded /\ ~IsNone(ui_store))
       => LET old == Get(ui_store)
              new == Get(ui_store')
          IN  /\ RangeOf(new, "xrange") =
                    IF IsNone(Carried("xaxis.range"))
                    THEN RangeOf(old, "xrange") ELSE Carried("xaxis.range")
              /\ RangeOf(new, "yrange") =
                    IF IsNone(Carried("yaxis.range"))
                    THEN RangeOf(old, "yrange") ELSE Carried("yaxis.range")
              /\ Flags(new) = CarriedFlags @@ Flags(old)]_vars

====
